---- MODULE Spec2Model ----
(***************************************************************************)
(* Target-derivation engine of AI-MWD-Copilot (src/src/targets.py):        *)
(* composite porosity, rule-based fluid class, pore-pressure estimate and  *)
(* the orchestrator compute_all_targets.                                   *)
(*                                                                         *)
(* A cell of a numeric column is a float64.  It is modelled as a tagged    *)
(* pair: <<"fin", k>> a finite number, <<"nan", 0>> NaN (pandas' missing   *)
(* value), <<"inf", 1>> and <<"inf", -1>> the two infinities.  A cell of   *)
(* an object column (FLUID_CLASS) is <<"str", s>> or NaN.                  *)
(* Finite numbers are exact fixed-point integers; the unit depends on the  *)
(* quantity:                                                               *)
(*   porosity-like (neutron reading, PHI_COMBINED): 1/PhiUnit              *)
(*   bulk density, mud weight: kg/m3      resistivity: ohm.m    gas: 1     *)
(*   depth: m    drilling exponent: 1/100    P_Hydrostatic: kPa            *)
(*   pressure: 1/100 psi                                                   *)
(* Floating-point rounding is not modelled: porosity and classification    *)
(* arithmetic is exact; the pressure conversion factors are rounded to six *)
(* significant digits.                                                     *)
(***************************************************************************)
EXTENDS Integers, Sequences, FiniteSets, TLC

VARIABLES heap, pc, op, result, ret, df0

vars == <<heap, pc, op, result, ret, df0>>

(* ---------------------------------------------------------------------- *)
(* float64 cells                                                           *)
(* ---------------------------------------------------------------------- *)
Fin(k) == <<"fin", k>>
NaN == <<"nan", 0>>
PInf == <<"inf", 1>>
NInf == <<"inf", -1>>
Str(s) == <<"str", s>>

IsNaN(v) == v[1] = "nan"
\* np.isfinite
isfinite(v) == v[1] = "fin"
IsInf(v) == v[1] = "inf"

\* c - v for a finite constant c (IEEE: NaN propagates, infinities flip)
SubFrom(c, v) ==
    IF isfinite(v) THEN Fin(c - v[2])
    ELSE IF IsInf(v) THEN <<"inf", 0 - v[2]>>
    ELSE NaN

\* v + w (IEEE: inf + -inf = NaN)
Add(v, w) ==
    IF IsNaN(v) \/ IsNaN(w) THEN NaN
    ELSE IF IsInf(v) /\ IsInf(w) THEN (IF v[2] = w[2] THEN v ELSE NaN)
    ELSE IF IsInf(v) THEN v
    ELSE IF IsInf(w) THEN w
    ELSE Fin(v[2] + w[2])

\* v / d for a finite positive constant d; the inputs of the model are
\* chosen so that the quotient is an exact integer of the unit
DivBy(v, d) ==
    IF isfinite(v) THEN Fin(v[2] \div d) ELSE v

\* v > c and v >= c for a finite constant c (IEEE: comparisons with NaN are
\* false)
Gt(v, c) ==
    IF isfinite(v) THEN v[2] > c
    ELSE IF IsInf(v) THEN v[2] = 1
    ELSE FALSE

Ge(v, c) ==
    IF isfinite(v) THEN v[2] >= c
    ELSE IF IsInf(v) THEN v[2] = 1
    ELSE FALSE

\* np.clip(v, lo, hi): NaN stays NaN, the infinities go to the bounds
clip(v, lo, hi) ==
    IF IsNaN(v) THEN NaN
    ELSE IF IsInf(v) THEN (IF v[2] = 1 THEN Fin(hi) ELSE Fin(lo))
    ELSE IF v[2] < lo THEN Fin(lo)
    ELSE IF v[2] > hi THEN Fin(hi)
    ELSE v

\* np.nan_to_num: NaN becomes 0.  +inf/-inf become the largest/smallest
\* finite float; only their order against a small constant is ever used,
\* which is that of the infinities, so they are kept.
nan_to_num(v) == IF IsNaN(v) THEN Fin(0) ELSE v

\* Series.fillna(c): only NaN is missing (inf is not, by pandas' default)
fillna(v, c) == IF IsNaN(v) THEN Fin(c) ELSE v

(* ---------------------------------------------------------------------- *)
(* tables                                                                  *)
(* ---------------------------------------------------------------------- *)
\* A DataFrame: n rows (index 1..n) and a function from the names of the
\* columns it has to Series of n cells.
columns(df) == DOMAIN df.data
len(df) == df.n
\* pd.Series([c] * n, index=df.index)
Full(n, c) == [i \in 1..n |-> c]
\* df[name] = series : adds or replaces one column
SetColumn(df, name, series) ==
    [n |-> df.n,
     data |-> [c \in columns(df) \cup {name} |->
                  IF c = name THEN series ELSE df.data[c]]]

bulk_col == "Bulk Density - Compensated kg/m3"
neutron_col == "Neutron Porosity (Sandstone) Euc"

(* ---------------------------------------------------------------------- *)
(* porosity                                                                *)
(* ---------------------------------------------------------------------- *)
rho_matrix == 2650
rho_fluid == 1000

\* one porosity unit: the fraction 1 is PhiUnit.  400 * 1650 makes the
\* density estimate of an integer density, a reading in hundredths, that
\* reading divided by 100 and the mean of any two of them exact integers.
PhiUnit == 400 * (rho_matrix - rho_fluid)
\* the fraction a/b in porosity units
Frac(a, b) == (a * PhiUnit) \div b

\* (rho_matrix - rho_bulk) / (rho_matrix - rho_fluid) of one cell, in
\* porosity units, with numpy's division (x/0 = +-inf, 0/0 = NaN)
Quotient(num, den) ==
    IF ~isfinite(num) THEN num
    ELSE IF den = 0
         THEN (IF num[2] > 0 THEN PInf ELSE IF num[2] < 0 THEN NInf ELSE NaN)
    ELSE Fin((num[2] * PhiUnit) \div den)

\* fault variant: the final np.clip forgotten
_phi_from_density_noclip(rho_bulk) ==
    LET phi == Quotient(SubFrom(rho_matrix, rho_bulk), rho_matrix - rho_fluid)
    IN  IF isfinite(phi) THEN phi ELSE NaN

_phi_from_density(rho_bulk) ==
    LET phi == Quotient(SubFrom(rho_matrix, rho_bulk), rho_matrix - rho_fluid)
        sane == IF isfinite(phi) THEN phi ELSE NaN
    IN  clip(sane, 0, PhiUnit)

\* fault variant: the threshold of the code's comment ("percent (>1)")
NeutronFraction_gt1(neutron) ==
    IF Gt(nan_to_num(neutron), Frac(1, 1)) THEN DivBy(neutron, 100) ELSE neutron

\* np.where(np.nan_to_num(neutron) > 1.5, neutron / 100.0, neutron)
NeutronFraction(neutron) ==
    IF Gt(nan_to_num(neutron), Frac(3, 2)) THEN DivBy(neutron, 100) ELSE neutron

\* np.nanmean of one column of the stacked estimates: the mean of the
\* entries that are not NaN, NaN when there is none
RECURSIVE NanSum(_)
NanSum(s) ==
    IF s = <<>> THEN Fin(0)
    ELSE IF IsNaN(Head(s)) THEN NanSum(Tail(s))
    ELSE Add(Head(s), NanSum(Tail(s)))

RECURSIVE NanCount(_)
NanCount(s) ==
    IF s = <<>> THEN 0
    ELSE (IF IsNaN(Head(s)) THEN 0 ELSE 1) + NanCount(Tail(s))

\* fault variant: np.sum in place of the mean
nanmean_sum(s) ==
    IF NanCount(s) = 0 THEN NaN ELSE NanSum(s)

\* fault variant: np.mean, which propagates NaN
nanmean_propagate(s) ==
    IF NanCount(s) < Len(s) \/ s = <<>> THEN NaN ELSE DivBy(NanSum(s), Len(s))

nanmean(s) ==
    IF NanCount(s) = 0 THEN NaN ELSE DivBy(NanSum(s), NanCount(s))

\* the list phi_estimates: one Series per input column the table has
phi_estimates(df) ==
    (IF bulk_col \in columns(df)
       THEN << [i \in 1..len(df) |-> _phi_from_density(df.data[bulk_col][i])] >>
       ELSE <<>>)
    \o
    (IF neutron_col \in columns(df)
       THEN << [i \in 1..len(df) |-> NeutronFraction(df.data[neutron_col][i])] >>
       ELSE <<>>)

\* fault variant: the final np.clip forgotten
compute_phi_combined_noclip(df) ==
    LET est == phi_estimates(df)
    IN  IF est = <<>>
        THEN Full(len(df), NaN)
        ELSE [i \in 1..len(df) |-> nanmean([k \in 1..Len(est) |-> est[k][i]])]

\* fault variant: zeros when there is nothing to compute
compute_phi_combined_zero(df) ==
    LET est == phi_estimates(df)
    IN  IF est = <<>>
        THEN Full(len(df), Fin(0))
        ELSE [i \in 1..len(df) |->
                clip(nanmean([k \in 1..Len(est) |-> est[k][i]]), 0, PhiUnit)]

\* fault variant: a single undefined cell when there is nothing to compute
compute_phi_combined_onecell(df) ==
    LET est == phi_estimates(df)
    IN  IF est = <<>>
        THEN Full(1, NaN)
        ELSE [i \in 1..len(df) |->
                clip(nanmean([k \in 1..Len(est) |-> est[k][i]]), 0, PhiUnit)]

compute_phi_combined(df) ==
    LET est == phi_estimates(df)
    IN  IF est = <<>>
        THEN Full(len(df), NaN)
        ELSE [i \in 1..len(df) |->
                clip(nanmean([k \in 1..Len(est) |-> est[k][i]]), 0, PhiUnit)]

(* ---------------------------------------------------------------------- *)
(* fluid class                                                             *)
(* ---------------------------------------------------------------------- *)
resist_col == "Resistivity Phase - Corrected - 2MHz ohm.m"
gas_col == "Chrom 1 Total Gas Euc"
PHI_COMBINED == "PHI_COMBINED"
FLUID_CLASS == "FLUID_CLASS"
PREDICTED_PORE_PRESSURE_PSI == "PREDICTED_PORE_PRESSURE_PSI"

Background == Str("Background")
PayZone == Str("Pay Zone")
PotentialReservoir == Str("Potential Reservoir")

\* df[c] if c in df.columns else pd.Series([np.nan] * n)
ColumnOrNaN(df, c) ==
    IF c \in columns(df) THEN df.data[c] ELSE Full(len(df), NaN)

\* fault variant: a missing porosity lets the gas rule fire
cond_pot_phioptional(resist, gas, phi) ==
    \/ Ge(fillna(resist, 0), 100)
    \/ (Ge(fillna(gas, 0), 50) /\ (IsNaN(phi) \/ Ge(phi, Frac(5, 100))))

\* (resist.fillna(0) >= 100) | ((gas.fillna(0) >= 50) & (phi.fillna(0) >= 0.05))
cond_pot(resist, gas, phi) ==
    \/ Ge(fillna(resist, 0), 100)
    \/ (Ge(fillna(gas, 0), 50) /\ Ge(fillna(phi, 0), Frac(5, 100)))

\* fault variant: the exclusion of rows already marked potential forgotten
cond_pay_nopriority(resist, gas, phi) ==
    Ge(fillna(resist, 0), 20) \/ Ge(fillna(gas, 0), 10)

\* ((resist.fillna(0) >= 20) | (gas.fillna(0) >= 10)) & (~cond_pot)
cond_pay(resist, gas, phi) ==
    /\ (Ge(fillna(resist, 0), 20) \/ Ge(fillna(gas, 0), 10))
    /\ ~cond_pot(resist, gas, phi)

\* fault variant: an undefined class when neither column exists
compute_fluid_class_nodefault(df, phi_col) ==
    LET n == len(df)
        resist == ColumnOrNaN(df, resist_col)
        gas == ColumnOrNaN(df, gas_col)
        phi == ColumnOrNaN(df, phi_col)
    IN  IF resist_col \notin columns(df) /\ gas_col \notin columns(df)
        THEN Full(n, NaN)
        ELSE [i \in 1..n |->
                IF cond_pot(resist[i], gas[i], phi[i]) THEN PotentialReservoir
                ELSE IF cond_pay(resist[i], gas[i], phi[i]) THEN PayZone
                ELSE Background]

\* fault variant: an undefined class for a row whose resistivity or gas
\* reading is missing
compute_fluid_class_propagate(df, phi_col) ==
    LET n == len(df)
        resist == ColumnOrNaN(df, resist_col)
        gas == ColumnOrNaN(df, gas_col)
        phi == ColumnOrNaN(df, phi_col)
    IN  IF resist_col \notin columns(df) /\ gas_col \notin columns(df)
        THEN Full(n, Background)
        ELSE [i \in 1..n |->
                IF IsNaN(resist[i]) \/ IsNaN(gas[i]) THEN NaN
                ELSE IF cond_pot(resist[i], gas[i], phi[i]) THEN PotentialReservoir
                ELSE IF cond_pay(resist[i], gas[i], phi[i]) THEN PayZone
                ELSE Background]

compute_fluid_class(df, phi_col) ==
    LET n == len(df)
        result0 == Full(n, Background)
        resist == ColumnOrNaN(df, resist_col)
        gas == ColumnOrNaN(df, gas_col)
        phi == ColumnOrNaN(df, phi_col)
        \* result.loc[cond_pot] = 'Potential Reservoir'
        result1 == [i \in 1..n |->
                      IF cond_pot(resist[i], gas[i], phi[i])
                      THEN PotentialReservoir ELSE result0[i]]
        \* result.loc[cond_pay] = 'Pay Zone'
        result2 == [i \in 1..n |->
                      IF cond_pay(resist[i], gas[i], phi[i])
                      THEN PayZone ELSE result1[i]]
    IN  IF resist_col \notin columns(df) /\ gas_col \notin columns(df)
        THEN result0
        ELSE result2

(* ---------------------------------------------------------------------- *)
(* pore pressure                                                           *)
(* Units: DEPTH m, mud weight kg/m3, P_Hydrostatic kPa, drilling exponent  *)
(* 1/100, pressure 1/100 psi.  The two conversion factors are rounded to   *)
(* six significant digits and products are truncated to 0.01 psi.          *)
(* ---------------------------------------------------------------------- *)
depth_col == "DEPTH"
mud_col == "Mud Weight In kg/m3"
dc_col == "Corrected Drilling Exponent unitless"
hydro_col == "P_Hydrostatic"

\* v * w (IEEE: NaN propagates, inf * 0 = NaN)
Sign(k) == IF k > 0 THEN 1 ELSE IF k < 0 THEN -1 ELSE 0
Mul(v, w) ==
    IF IsNaN(v) \/ IsNaN(w) THEN NaN
    ELSE IF isfinite(v) /\ isfinite(w) THEN Fin(v[2] * w[2])
    ELSE IF Sign(v[2]) * Sign(w[2]) = 0 THEN NaN
    ELSE <<"inf", Sign(v[2]) * Sign(w[2])>>

\* floor(x * num / 10^6) without leaving 32 bits, for |x| <= 15 * 10^6
Scale(x, num) ==
    LET q == x \div 1000
        r == x % 1000
    IN  (q * num + (r * num) \div 1000) \div 1000

\* g * pa_to_psi = 9.80665 * 0.00014503773773020923 psi per (kg/m3 * m),
\* in 1/100 psi, times 10^6
HydroFactor == 142233
\* pa_to_psi = 0.00014503773773020923 psi per Pa, in 1/100 psi per kPa,
\* times 10^4
PaFactor == 145038

\* rho * g * depth * pa_to_psi
\* fault variant: the gravitational acceleration left out of the baseline
p_hydro_from_mud_nog(rho, depth) ==
    LET x == Mul(rho, depth)
    IN  IF isfinite(x) THEN Fin(Scale(x[2], PaFactor \div 10)) ELSE x

\* fault variant: a baseline that does not grow with depth
p_hydro_from_mud_nodepth(rho, depth) ==
    LET x == Mul(rho, depth)
    IN  IF isfinite(x) THEN Fin(Scale(rho[2] * 1000, HydroFactor)) ELSE x

p_hydro_from_mud(rho, depth) ==
    LET x == Mul(rho, depth)
    IN  IF isfinite(x) THEN Fin(Scale(x[2], HydroFactor)) ELSE x

\* P_Hydrostatic * 0.00014503773773020923
\* fault variant: the channel taken as psi, without the conversion
p_hydro_from_column_noconv(pa) ==
    IF isfinite(pa) THEN Fin(pa[2] * 100000) ELSE pa

p_hydro_from_column(pa) ==
    IF isfinite(pa) THEN Fin(Scale(pa[2] * 100, PaFactor)) ELSE pa

\* fault variant: a P_Hydrostatic column preferred over mud weight and depth
p_hydro_psi_hydrofirst(df) ==
    IF hydro_col \in columns(df)
    THEN [i \in 1..len(df) |->
            p_hydro_from_column(fillna(df.data[hydro_col][i], 0))]
    ELSE IF mud_col \in columns(df) /\ depth_col \in columns(df)
    THEN [i \in 1..len(df) |->
            p_hydro_from_mud(fillna(df.data[mud_col][i], 1000),
                             fillna(df.data[depth_col][i], 0))]
    ELSE Full(len(df), Fin(0))

\* fault variant: no fallback to water for a missing mud weight
p_hydro_psi_nofallback(df) ==
    IF mud_col \in columns(df) /\ depth_col \in columns(df)
    THEN [i \in 1..len(df) |->
            p_hydro_from_mud(df.data[mud_col][i],
                             fillna(df.data[depth_col][i], 0))]
    ELSE IF hydro_col \in columns(df)
    THEN [i \in 1..len(df) |->
            p_hydro_from_column(fillna(df.data[hydro_col][i], 0))]
    ELSE Full(len(df), Fin(0))

p_hydro_psi(df) ==
    IF mud_col \in columns(df) /\ depth_col \in columns(df)
    THEN [i \in 1..len(df) |->
            p_hydro_from_mud(fillna(df.data[mud_col][i], 1000),
                             fillna(df.data[depth_col][i], 0))]
    ELSE IF hydro_col \in columns(df)
    THEN [i \in 1..len(df) |->
            p_hydro_from_column(fillna(df.data[hydro_col][i], 0))]
    ELSE Full(len(df), Fin(0))

\* (nominal - dc) * scale with nominal = 1.0 and scale = 1000.0 / 0.1
nominal == 100
scale == 10000
\* fault variant: the anomaly with its sign reversed
anomaly_flipped(df) ==
    IF dc_col \in columns(df)
    THEN [i \in 1..len(df) |->
            Mul(SubFrom(nominal, df.data[dc_col][i]), Fin(0 - scale))]
    ELSE Full(len(df), Fin(0))

anomaly(df) ==
    IF dc_col \in columns(df)
    THEN [i \in 1..len(df) |->
            Mul(SubFrom(nominal, df.data[dc_col][i]), Fin(scale))]
    ELSE Full(len(df), Fin(0))

\* np.clip(psi, 0.0, None)
clip_low(v, lo) ==
    IF IsNaN(v) THEN NaN
    ELSE IF IsInf(v) THEN (IF v[2] = 1 THEN v ELSE Fin(lo))
    ELSE IF v[2] < lo THEN Fin(lo)
    ELSE v

\* fault variant: no lower clip
compute_pore_pressure_noclip(df) ==
    LET hydro == p_hydro_psi(df)
        anom == anomaly(df)
    IN  [i \in 1..len(df) |->
           LET psi == Add(hydro[i], anom[i])
           IN  IF isfinite(psi) THEN psi ELSE NaN]

compute_pore_pressure(df) ==
    LET hydro == p_hydro_psi(df)
        anom == anomaly(df)
    IN  [i \in 1..len(df) |->
           LET psi == Add(hydro[i], anom[i])
               sane == IF isfinite(psi) THEN psi ELSE NaN
           IN  clip_low(sane, 0)]

(* ---------------------------------------------------------------------- *)
(* orchestrator                                                            *)
(* ---------------------------------------------------------------------- *)
TARGETS == {PHI_COMBINED, FLUID_CLASS, PREDICTED_PORE_PRESSURE_PSI}

\* fault variant: porosity recomputed whether or not the column exists
AttachTargets_overwrite(df) ==
    LET d1 == SetColumn(df, PHI_COMBINED, compute_phi_combined(df))
        d2 == IF FLUID_CLASS \notin columns(d1)
              THEN SetColumn(d1, FLUID_CLASS, compute_fluid_class(d1, PHI_COMBINED))
              ELSE d1
    IN  IF PREDICTED_PORE_PRESSURE_PSI \notin columns(d2)
        THEN SetColumn(d2, PREDICTED_PORE_PRESSURE_PSI, compute_pore_pressure(d2))
        ELSE d2

\* fault variant: the pore-pressure step forgotten
AttachTargets_nopressure(df) ==
    LET d1 == IF PHI_COMBINED \notin columns(df)
              THEN SetColumn(df, PHI_COMBINED, compute_phi_combined(df))
              ELSE df
    IN  IF FLUID_CLASS \notin columns(d1)
        THEN SetColumn(d1, FLUID_CLASS, compute_fluid_class(d1, PHI_COMBINED))
        ELSE d1

\* fault variant: the undefined cells of a pre-existing porosity column
\* filled with computed values
AttachTargets_cellfill(df) ==
    LET phi == compute_phi_combined(df)
        d1 == IF PHI_COMBINED \notin columns(df)
              THEN SetColumn(df, PHI_COMBINED, phi)
              ELSE SetColumn(df, PHI_COMBINED,
                       [i \in 1..len(df) |->
                           IF IsNaN(df.data[PHI_COMBINED][i]) THEN phi[i]
                           ELSE df.data[PHI_COMBINED][i]])
        d2 == IF FLUID_CLASS \notin columns(d1)
              THEN SetColumn(d1, FLUID_CLASS, compute_fluid_class(d1, PHI_COMBINED))
              ELSE d1
    IN  IF PREDICTED_PORE_PRESSURE_PSI \notin columns(d2)
        THEN SetColumn(d2, PREDICTED_PORE_PRESSURE_PSI, compute_pore_pressure(d2))
        ELSE d2

\* fault variant: fluid class resolved before porosity
AttachTargets_fluidfirst(df) ==
    LET d1 == IF FLUID_CLASS \notin columns(df)
              THEN SetColumn(df, FLUID_CLASS, compute_fluid_class(df, PHI_COMBINED))
              ELSE df
        d2 == IF PHI_COMBINED \notin columns(d1)
              THEN SetColumn(d1, PHI_COMBINED, compute_phi_combined(d1))
              ELSE d1
    IN  IF PREDICTED_PORE_PRESSURE_PSI \notin columns(d2)
        THEN SetColumn(d2, PREDICTED_PORE_PRESSURE_PSI, compute_pore_pressure(d2))
        ELSE d2

\* the three "if col not in df.columns: df[col] = ..." steps, in order, on
\* the table object the function works on
AttachTargets(df) ==
    LET d1 == IF PHI_COMBINED \notin columns(df)
              THEN SetColumn(df, PHI_COMBINED, compute_phi_combined(df))
              ELSE df
        d2 == IF FLUID_CLASS \notin columns(d1)
              THEN SetColumn(d1, FLUID_CLASS, compute_fluid_class(d1, PHI_COMBINED))
              ELSE d1
        d3 == IF PREDICTED_PORE_PRESSURE_PSI \notin columns(d2)
              THEN SetColumn(d2, PREDICTED_PORE_PRESSURE_PSI, compute_pore_pressure(d2))
              ELSE d2
    IN  d3

\* fault variant: the inplace flag ignored, the caller's table always used
compute_all_targets_nocopy(h, inplace) ==
    << [h EXCEPT ![1] = AttachTargets(h[1])], 1 >>

\* fault variant: the copy gets its porosity recomputed
compute_all_targets_copydiffers(h, inplace) ==
    IF inplace
    THEN << [h EXCEPT ![1] = AttachTargets(h[1])], 1 >>
    ELSE << Append(h, AttachTargets_overwrite(h[1])), Len(h) + 1 >>

\* compute_all_targets(df, inplace) on the heap: object 1 is the table the
\* caller holds; df.copy() allocates a new object with the same contents.
\* Returns <<heap after the call, id of the returned object>>.
compute_all_targets(h, inplace) ==
    LET h1 == IF inplace THEN h ELSE Append(h, h[1])
        work == IF inplace THEN 1 ELSE Len(h1)
    IN  << [h1 EXCEPT ![work] = AttachTargets(h1[work])], work >>

(* ---------------------------------------------------------------------- *)
(* data loader                                                             *)
(* ---------------------------------------------------------------------- *)
gamma_col == "Gamma Ray - Corrected gAPI"
DISPLAY_COLS ==
    {depth_col, gamma_col, resist_col, bulk_col, neutron_col,
     PHI_COMBINED, FLUID_CLASS, PREDICTED_PORE_PRESSURE_PSI}
essential == {depth_col} \cup (DISPLAY_COLS \ {depth_col})

\* ascending order of sort_values: NaN after every number
SortsBefore(a, b) ==
    IF IsNaN(b) THEN TRUE
    ELSE IF IsNaN(a) THEN FALSE
    ELSE IF IsInf(a) THEN a[2] = -1 \/ b = a
    ELSE IF IsInf(b) THEN b[2] = 1
    ELSE a[2] <= b[2]

\* df.sort_values(col): the row orders it may produce (the order of rows
\* with equal keys is not fixed by the default sort)
SortOrders(df, col) ==
    {p \in [1..len(df) -> 1..len(df)] :
        /\ \A i, j \in 1..len(df) : i # j => p[i] # p[j]
        /\ \A i \in 1..(len(df) - 1) :
              SortsBefore(df.data[col][p[i]], df.data[col][p[i + 1]])}

\* the rows of df in the order p, index reset
Reordered(df, p) ==
    [n |-> len(df),
     data |-> [c \in columns(df) |-> [i \in 1..len(df) |-> df.data[c][p[i]]]]]

\* load_data() when pd.read_csv returned the table csv and sort_values
\* chose the order p: <<outcome, loader's objects, id of the returned one>>
load_data(csv, p) ==
    LET missing == {col \in essential : col \notin columns(csv)}
        sorted == Reordered(csv, p)
        missing_targets == {t \in TARGETS : t \notin columns(sorted)}
        computed == compute_all_targets(<<sorted>>, TRUE)
    IN  IF missing # {}
        THEN <<"RuntimeError", <<csv>>, 0>>
        ELSE IF missing_targets # {}
        THEN <<"returned", <<csv>> \o computed[1], 1 + computed[2]>>
        ELSE <<"returned", <<csv, sorted>>, 2>>

(* ---------------------------------------------------------------------- *)
(* feature selection                                                       *)
(* ---------------------------------------------------------------------- *)
wob_col == "Weight On Bit N"
rop_col == "ROP for the Bit - Distance Over Time (On Bottom) m/s"
torque_col == "Surface Torque Average N.m"
FEATURES_POROSITY ==
    <<depth_col, gamma_col, resist_col, dc_col, rop_col, torque_col, wob_col, gas_col>>
FEATURES_FLUID ==
    <<depth_col, gamma_col, dc_col, rop_col, "Mechanical Specific Energy Pa",
      torque_col, wob_col, "28 Stick Slip RPM Average RPM">>
FEATURES_PRESSURE ==
    <<depth_col, mud_col, "ECD at Bit kg/m3", "Annular Pressure Pa", rop_col,
      wob_col, torque_col, "DEPTH_FT", hydro_col, "Delta_P_Hydro",
      "P_Overburden", "Effective_Stress", "Pressure_Anomaly">>
MINIMAL_FEATURES == <<depth_col, wob_col, rop_col>>

Range(seq) == {seq[k] : k \in DOMAIN seq}
\* [f for f in features if f in df.columns]
Available(features, df) == SelectSeq(features, LAMBDA f : f \in columns(df))
\* df[cols].copy()
SelectColumns(df, cols) ==
    [n |-> len(df), data |-> [c \in Range(cols) |-> df.data[c]]]
\* df.reindex(columns=features).copy(): absent columns are created as NaN
reindex(df, features) ==
    [n |-> len(df),
     data |-> [c \in Range(features) |->
                  IF c \in columns(df) THEN df.data[c] ELSE Full(len(df), NaN)]]

\* fault variant: the fallback keeps the requested features that exist
_safe_select_keeps(df, features, force_full) ==
    LET requested == Available(features, df)
        available == IF Len(requested) < 3
                     THEN requested \o SelectSeq(Available(MINIMAL_FEATURES, df),
                                                 LAMBDA f : f \notin Range(requested))
                     ELSE requested
    IN  IF force_full THEN <<"returned", reindex(df, features)>>
        ELSE IF Len(available) = 0 THEN <<"ValueError", df>>
        ELSE <<"returned", SelectColumns(df, available)>>

\* ModelManager._safe_select: <<outcome, the frame returned>>
_safe_select(df, features, force_full) ==
    LET requested == Available(features, df)
        available == IF Len(requested) < 3
                     THEN Available(MINIMAL_FEATURES, df)
                     ELSE requested
    IN  IF force_full THEN <<"returned", reindex(df, features)>>
        ELSE IF Len(available) = 0 THEN <<"ValueError", df>>
        ELSE <<"returned", SelectColumns(df, available)>>

(* ---------------------------------------------------------------------- *)
(* inputs                                                                  *)
(* ---------------------------------------------------------------------- *)
\* most rows of a table
MaxRows == 2

\* a table of the rows `rows` (functions from column names to cells) cut
\* down to the columns `present`
MkTable(rows, present) ==
    [n |-> Len(rows),
     data |-> [c \in present |-> [i \in 1..Len(rows) |-> rows[i][c]]]]

\* the rows of `pool` cut down to the columns `present`
Project(pool, present) == {[c \in present |-> r[c]] : r \in pool}

RowSeqs(pool) == UNION {[1..n -> pool] : n \in 0..MaxRows}

\* bulk densities (kg/m3): missing, infinite, below rho_fluid, rho_fluid,
\* typical sandstone, rho_matrix, above rho_matrix
BulkValues == {NaN, PInf, Fin(500), Fin(1000), Fin(2200), Fin(2650), Fin(3000)}
\* neutron readings: missing, infinite, negative, 0.35, 1.4, exactly 1.5,
\* 1.51, 20 (percent), 200 (percent above 100)
NeutronValues ==
    {NaN, PInf, Fin(Frac(-1, 2)), Fin(Frac(35, 100)), Fin(Frac(14, 10)),
     Fin(Frac(3, 2)), Fin(Frac(151, 100)), Fin(Frac(20, 1)), Fin(Frac(200, 1))}

PhiCols == {bulk_col, neutron_col}
PhiRows == {(bulk_col :> b) @@ (neutron_col :> nu) :
                b \in BulkValues, nu \in NeutronValues}

\* scalar densities handed to _phi_from_density directly: missing, the
\* infinities, and 0, 50, 100, ... kg/m3
DensitySteps == 80
DensityValues == {NaN, PInf, NInf} \cup {Fin(50 * k) : k \in 0..DensitySteps}

\* resistivities (ohm.m) and gas readings around the rule thresholds,
\* porosities around 0.05
ResistValues == {NaN, Fin(19), Fin(20), Fin(99), Fin(100)}
GasValues == {NaN, Fin(9), Fin(10), Fin(49), Fin(50)}
PhiValues == {NaN, Fin(Frac(5, 100) - 1), Fin(Frac(5, 100))}

FluidCols == {resist_col, gas_col, PHI_COMBINED}
FluidRows == {(resist_col :> r) @@ (gas_col :> g) @@ (PHI_COMBINED :> p) :
                r \in ResistValues, g \in GasValues, p \in PhiValues}

\* depths (m), mud weights (kg/m3), drilling exponents (1/100) and
\* hydrostatic pressures (kPa)
DepthValues == {NaN, Fin(0), Fin(1000), Fin(2000)}
MudValues == {NaN, Fin(1000), Fin(1200)}
DcValues == {NaN, Fin(80), Fin(100), Fin(200)}
HydroValues == {NaN, Fin(10000)}

PressureCols == {depth_col, mud_col, dc_col, hydro_col}
PressureRows ==
    {(depth_col :> d) @@ (mud_col :> m) @@ (dc_col :> e) @@ (hydro_col :> h) :
        d \in DepthValues, m \in MudValues, e \in DcValues, h \in HydroValues}

\* whole rows for the orchestrator: sensor channels and pre-existing
\* target cells that are in their domain, undefined, or outside it
AllCols == PhiCols \cup FluidCols \cup PressureCols \cup TARGETS
Row(depth, bulk, neutron, resist, gas, mud, dc, hydro, phi, fluid, pp) ==
    (depth_col :> depth) @@ (bulk_col :> bulk) @@ (neutron_col :> neutron)
    @@ (resist_col :> resist) @@ (gas_col :> gas) @@ (mud_col :> mud)
    @@ (dc_col :> dc) @@ (hydro_col :> hydro) @@ (PHI_COMBINED :> phi)
    @@ (FLUID_CLASS :> fluid) @@ (PREDICTED_PORE_PRESSURE_PSI :> pp)
SampleRows ==
    { Row(Fin(2000), Fin(2200), Fin(Frac(2, 10)), Fin(50), Fin(10), Fin(1200),
          Fin(100), Fin(23536), Fin(Frac(3, 10)), PayZone, Fin(500000)),
      Row(Fin(2100), NaN, Fin(Frac(25, 1)), Fin(150), Fin(60), NaN,
          Fin(80), NaN, NaN, NaN, NaN),
      Row(Fin(1000), Fin(3000), NaN, NaN, Fin(100), Fin(1000),
          Fin(200), Fin(9807), Fin(Frac(17, 10)), Str("Unknown"), Fin(-500)),
      Row(Fin(0), Fin(1000), Fin(Frac(14, 10)), Fin(5), Fin(2), Fin(1200),
          NaN, Fin(0), Fin(0), Background, Fin(0)) }

(* ---------------------------------------------------------------------- *)
(* the caller: holds one table and makes one call                          *)
(* ---------------------------------------------------------------------- *)
NoCall == [fn |-> "none", inplace |-> FALSE, arg |-> NaN]

\* the caller holds a table of up to MaxRows rows drawn from `pool`, with
\* any subset of the columns `cols`; `args` are the scalars it may pass
InitWith(pool, cols, args) ==
    /\ \E present \in SUBSET cols :
       \E rows \in RowSeqs(Project(pool, present)) :
          /\ heap = <<MkTable(rows, present)>>
          /\ df0 = MkTable(rows, present)
    /\ pc = "ready"
    /\ \E a \in args : op = [NoCall EXCEPT !.arg = a]
    /\ result = <<>>
    /\ ret = 0

\* _phi_from_density(rho_bulk) on the scalar the caller holds
call_phi_from_density ==
    /\ pc = "ready"
    /\ result' = <<_phi_from_density(op.arg)>>
    /\ op' = [op EXCEPT !.fn = "_phi_from_density"]
    /\ pc' = "done"
    /\ UNCHANGED <<heap, ret, df0>>

call_compute_phi_combined ==
    /\ pc = "ready"
    /\ result' = compute_phi_combined(heap[1])
    /\ op' = [fn |-> "compute_phi_combined", inplace |-> FALSE, arg |-> NaN]
    /\ pc' = "done"
    /\ UNCHANGED <<heap, ret, df0>>

\* fault variant: the zero fill written back into the caller's table
call_compute_fluid_class_fillsinplace ==
    /\ pc = "ready"
    /\ result' = compute_fluid_class(heap[1], PHI_COMBINED)
    /\ heap' = [heap EXCEPT ![1] =
                    IF resist_col \in columns(heap[1])
                    THEN SetColumn(heap[1], resist_col,
                             [i \in 1..len(heap[1]) |-> fillna(heap[1].data[resist_col][i], 0)])
                    ELSE heap[1]]
    /\ op' = [fn |-> "compute_fluid_class", inplace |-> FALSE, arg |-> NaN]
    /\ pc' = "done"
    /\ UNCHANGED <<ret, df0>>

call_compute_fluid_class ==
    /\ pc = "ready"
    /\ result' = compute_fluid_class(heap[1], PHI_COMBINED)
    /\ op' = [fn |-> "compute_fluid_class", inplace |-> FALSE, arg |-> NaN]
    /\ pc' = "done"
    /\ UNCHANGED <<heap, ret, df0>>

\* the caller calls compute_fluid_class a second time on the table it holds
call_compute_fluid_class_again ==
    /\ pc = "done"
    /\ op.fn = "compute_fluid_class"
    /\ result' = compute_fluid_class(heap[1], PHI_COMBINED)
    /\ pc' = "again"
    /\ UNCHANGED <<heap, op, ret, df0>>

call_compute_pore_pressure ==
    /\ pc = "ready"
    /\ result' = compute_pore_pressure(heap[1])
    /\ op' = [fn |-> "compute_pore_pressure", inplace |-> FALSE, arg |-> NaN]
    /\ pc' = "done"
    /\ UNCHANGED <<heap, ret, df0>>

call_compute_all_targets ==
    /\ pc = "ready"
    /\ \E inplace \in BOOLEAN :
          /\ heap' = compute_all_targets(heap, inplace)[1]
          /\ ret' = compute_all_targets(heap, inplace)[2]
          /\ op' = [fn |-> "compute_all_targets", inplace |-> inplace, arg |-> NaN]
    /\ pc' = "done"
    /\ UNCHANGED <<result, df0>>

InitDensity == InitWith({}, {}, DensityValues)
NextDensity == call_phi_from_density
SpecDensity == InitDensity /\ [][NextDensity]_vars

InitPhi == InitWith(PhiRows, PhiCols, {NaN})
NextPhi == call_compute_phi_combined
SpecPhi == InitPhi /\ [][NextPhi]_vars

InitFluid == InitWith(FluidRows, FluidCols, {NaN})
NextFluid == call_compute_fluid_class
SpecFluid == InitFluid /\ [][NextFluid]_vars

InitPressure == InitWith(PressureRows, PressureCols, {NaN})
NextPressure == call_compute_pore_pressure
SpecPressure == InitPressure /\ [][NextPressure]_vars

InitTargets == InitWith(SampleRows, AllCols, {NaN})
NextTargets == call_compute_all_targets
SpecTargets == InitTargets /\ [][NextTargets]_vars

\* the loader reads a file holding any table
LoadCols == AllCols \cup {gamma_col}
LoadRows == {r @@ (gamma_col :> Fin(75)) : r \in SampleRows}

\* load_data() on the file contents held in heap[1]
call_load_data ==
    /\ pc = "ready"
    /\ \E p \in (IF depth_col \in columns(heap[1])
                 THEN SortOrders(heap[1], depth_col)
                 ELSE {<<>>}) :
          LET out == load_data(heap[1], p)
          IN  /\ pc' = (IF out[1] = "returned" THEN "done" ELSE "raised")
              /\ heap' = out[2]
              /\ ret' = out[3]
    /\ op' = [fn |-> "load_data", inplace |-> TRUE, arg |-> NaN]
    /\ UNCHANGED <<result, df0>>

InitLoad == InitWith(LoadRows, LoadCols, {NaN})
NextLoad == call_load_data
SpecLoad == InitLoad /\ [][NextLoad]_vars

\* compute_fluid_class called twice in a row on the same table
InitFluidTwice == InitWith(FluidRows, FluidCols, {NaN})
NextFluidTwice == call_compute_fluid_class \/ call_compute_fluid_class_again
SpecFluidTwice == InitFluidTwice /\ [][NextFluidTwice]_vars

\* tables and feature lists handed to _safe_select: the three lists of the
\* predictors, a list without any minimal feature, and the empty list
SelectCols == {depth_col, wob_col, rop_col, gamma_col, resist_col, mud_col, torque_col}
SelectRows == {[c \in SelectCols |-> Fin(1)], [c \in SelectCols |-> NaN]}
FeatureLists ==
    {FEATURES_POROSITY, FEATURES_FLUID, FEATURES_PRESSURE,
     <<gamma_col, resist_col, mud_col>>, <<>>}

\* self._safe_select(df, features, model_name, force_full) on the table the
\* caller holds and the feature list in op.arg
call_safe_select ==
    /\ pc = "ready"
    /\ \E force_full \in BOOLEAN :
          LET out == _safe_select(heap[1], op.arg, force_full)
          IN  /\ op' = [fn |-> "_safe_select", inplace |-> FALSE,
                        arg |-> [features |-> op.arg, force_full |-> force_full]]
              /\ IF out[1] = "returned"
                 THEN pc' = "done" /\ heap' = Append(heap, out[2]) /\ ret' = Len(heap) + 1
                 ELSE pc' = "raised" /\ heap' = heap /\ ret' = 0
    /\ UNCHANGED <<result, df0>>

InitSelect == InitWith(SelectRows, SelectCols, FeatureLists)
NextSelect == call_safe_select
SpecSelect == InitSelect /\ [][NextSelect]_vars

\* any one of the three estimators, called on any table
InitEstimators == InitWith(SampleRows, AllCols, {NaN})
NextEstimators ==
    \/ call_compute_phi_combined
    \/ call_compute_fluid_class
    \/ call_compute_pore_pressure
SpecEstimators == InitEstimators /\ [][NextEstimators]_vars

(* ---------------------------------------------------------------------- *)
(* properties                                                              *)
(* ---------------------------------------------------------------------- *)
Done(fn) == pc = "done" /\ op.fn = fn
\* the table compute_all_targets returned
Returned == heap[ret]
\* the cell of row i of column c of the caller's table before the call,
\* NaN when the table has no such column
Cell(c, i) == IF c \in columns(df0) THEN df0.data[c][i] ELSE NaN
InUnit(v) == isfinite(v) /\ 0 <= v[2] /\ v[2] <= PhiUnit

\* C1: every target column that exists on the input of compute_all_targets
\* holds the same cells in the returned table, for either value of inplace,
\* whatever the cells are and whichever other targets get computed.
C1_ExistingTargetsKept ==
    Done("compute_all_targets") =>
        \A c \in TARGETS \cap columns(df0) : Returned.data[c] = df0.data[c]

\* a call that found an out-of-domain porosity column and an undefined
\* pressure cell in place and had to compute the fluid class
C1_Witness ==
    /\ Done("compute_all_targets")
    /\ {PHI_COMBINED, PREDICTED_PORE_PRESSURE_PSI} \subseteq columns(df0)
    /\ FLUID_CLASS \notin columns(df0)
    /\ {bulk_col, neutron_col, resist_col, gas_col} \subseteq columns(df0)
    /\ \E i, j \in 1..len(df0) :
          /\ df0.data[PHI_COMBINED][i] = Fin(Frac(17, 10))
          /\ df0.data[PREDICTED_PORE_PRESSURE_PSI][j] = NaN

\* C2: the table compute_all_targets returns has all three target columns,
\* each with one cell per input row.
C2_AllTargetsPresent ==
    Done("compute_all_targets") =>
        /\ TARGETS \subseteq columns(Returned)
        /\ len(Returned) = len(df0)
        /\ \A c \in TARGETS : DOMAIN Returned.data[c] = 1..len(df0)

\* a call on a table of MaxRows rows that has only DEPTH
C2_Witness ==
    /\ Done("compute_all_targets")
    /\ columns(df0) = {depth_col}
    /\ len(df0) = MaxRows

\* C3: with inplace=False the returned table is another object and the
\* caller's table is as it was, so without the targets it lacked; with
\* inplace=True the returned table is the caller's object, which now has the
\* three target columns.
C3_CopyOrInPlace ==
    Done("compute_all_targets") =>
        IF op.inplace
        THEN /\ ret = 1
             /\ Len(heap) = 1
             /\ TARGETS \subseteq columns(heap[1])
        ELSE /\ ret # 1
             /\ heap[1] = df0
             /\ columns(heap[1]) \cap TARGETS = columns(df0) \cap TARGETS

\* a copy-mode call on a table with rows, every sensor channel and no target
C3_Witness ==
    /\ Done("compute_all_targets")
    /\ ~op.inplace
    /\ columns(df0) = AllCols \ TARGETS
    /\ len(df0) > 0
    /\ TARGETS \subseteq columns(Returned)
    /\ columns(heap[1]) \cap TARGETS = {}

\* C4: every cell compute_phi_combined returns is undefined or a fraction
\* in [0, 1].
C4_PhiInUnitInterval ==
    Done("compute_phi_combined") =>
        \A i \in 1..len(df0) : IsNaN(result[i]) \/ InUnit(result[i])

\* a call with a row whose neutron reading is 200 percent and whose density
\* is above the matrix density, and a row with a negative neutron reading
C4_Witness ==
    /\ Done("compute_phi_combined")
    /\ PhiCols \subseteq columns(df0)
    /\ \E i, j \in 1..len(df0) :
          /\ df0.data[neutron_col][i] = Fin(Frac(200, 1))
          /\ df0.data[bulk_col][i] = Fin(500)
          /\ df0.data[neutron_col][j] = Fin(Frac(-1, 2))
          /\ df0.data[bulk_col][j] = NaN

\* C5: for a number rho_bulk, _phi_from_density returns
\* (2650 - rho_bulk) / 1650 clamped to [0, 1]: 0 from 2650 up, 1 from 1000
\* down; for a missing rho_bulk it returns undefined.
C5_DensityPorosity ==
    Done("_phi_from_density") =>
        LET rho == op.arg
            phi == result[1]
        IN  /\ IsNaN(rho) => IsNaN(phi)
            /\ isfinite(rho) =>
                 /\ isfinite(phi)
                 /\ rho[2] >= 2650 => phi[2] = 0
                 /\ rho[2] <= 1000 => phi[2] = PhiUnit
                 /\ (1000 < rho[2] /\ rho[2] < 2650) =>
                        /\ phi[2] * 1650 = (2650 - rho[2]) * PhiUnit
                        /\ 0 < phi[2] /\ phi[2] < PhiUnit

\* a call with the matrix density itself
C5_Witness ==
    /\ Done("_phi_from_density")
    /\ op.arg = Fin(2650)
    /\ result = <<Fin(0)>>

\* a finite fraction k (in porosity units) clamped to [0, 1]
Clamp01(k) == IF k < 0 THEN 0 ELSE IF k > PhiUnit THEN PhiUnit ELSE k
\* (2650 - rho) / 1650 of a finite density rho, in porosity units
DensityFraction(rho) == ((2650 - rho) * PhiUnit) \div 1650
\* a finite neutron reading k as a fraction: divided by 100 iff above 1.5
UnitNeutron(k) == IF 2 * k > 3 * PhiUnit THEN k \div 100 ELSE k
BothFinite(i) ==
    /\ PhiCols \subseteq columns(df0)
    /\ isfinite(df0.data[bulk_col][i])
    /\ isfinite(df0.data[neutron_col][i])

\* C6 as claimed: with both inputs finite, the composite is the mean of the
\* two estimates, each clamped to [0, 1] on its own.
C6_MeanOfClampedEstimates ==
    Done("compute_phi_combined") =>
        \A i \in 1..len(df0) :
            BothFinite(i) =>
                result[i] =
                    Fin((Clamp01(DensityFraction(df0.data[bulk_col][i][2]))
                         + Clamp01(UnitNeutron(df0.data[neutron_col][i][2])))
                        \div 2)

\* C6 as amended: with both inputs finite, the composite is the mean of the
\* clamped density estimate and the unit-normalized neutron value as it is
\* (not clamped on its own), and that mean is clamped to [0, 1].
C6_ClampedMeanOfEstimates ==
    Done("compute_phi_combined") =>
        \A i \in 1..len(df0) :
            BothFinite(i) =>
                result[i] =
                    Fin(Clamp01((Clamp01(DensityFraction(df0.data[bulk_col][i][2]))
                                 + UnitNeutron(df0.data[neutron_col][i][2]))
                                \div 2))

\* a call with a row of density 2650 and neutron reading 1.4: the composite
\* is 0.7, the mean of 0 and 1.4
C6_Witness ==
    /\ Done("compute_phi_combined")
    /\ \E i \in 1..len(df0) :
          /\ BothFinite(i)
          /\ df0.data[bulk_col][i] = Fin(2650)
          /\ df0.data[neutron_col][i] = Fin(Frac(14, 10))
          /\ result[i] = Fin(Frac(7, 10))

\* C7: with neither the bulk-density nor the neutron column, the column
\* compute_phi_combined returns has one cell per row, each undefined.
C7_NoInputsAllUndefined ==
    (Done("compute_phi_combined") /\ columns(df0) \cap PhiCols = {}) =>
        /\ DOMAIN result = 1..len(df0)
        /\ \A i \in 1..len(df0) : result[i] = NaN

\* a call on a table of MaxRows rows with neither column
C7_Witness ==
    /\ Done("compute_phi_combined")
    /\ columns(df0) \cap PhiCols = {}
    /\ len(df0) = MaxRows
    /\ result = Full(MaxRows, NaN)

\* C8: with both columns, a row missing exactly one of the two inputs gets
\* the clamped estimate of the other input; the result is defined whenever
\* that other input is a number.
C8_MissingInputIgnored ==
    (Done("compute_phi_combined") /\ PhiCols \subseteq columns(df0)) =>
        \A i \in 1..len(df0) :
            LET rho == df0.data[bulk_col][i]
                nu == df0.data[neutron_col][i]
            IN  /\ (IsNaN(rho) /\ isfinite(nu)) =>
                      result[i] = Fin(Clamp01(UnitNeutron(nu[2])))
                /\ (IsNaN(nu) /\ isfinite(rho)) =>
                      result[i] = Fin(Clamp01(DensityFraction(rho[2])))

\* a call with a row that has only the neutron reading and a row that has
\* only the density
C8_Witness ==
    /\ Done("compute_phi_combined")
    /\ PhiCols \subseteq columns(df0)
    /\ \E i, j \in 1..len(df0) :
          /\ df0.data[bulk_col][i] = NaN
          /\ df0.data[neutron_col][i] = Fin(Frac(35, 100))
          /\ result[i] = Fin(Frac(35, 100))
          /\ df0.data[bulk_col][j] = Fin(2200)
          /\ df0.data[neutron_col][j] = NaN
          /\ result[j] = Fin(180000)

Reaches(v, k) == (isfinite(v) /\ v[2] >= k) \/ v = PInf
RulePotential(i) ==
    \/ Reaches(Cell(resist_col, i), 100)
    \/ (Reaches(Cell(gas_col, i), 50) /\ Reaches(Cell(PHI_COMBINED, i), Frac(5, 100)))
RulePay(i) ==
    Reaches(Cell(resist_col, i), 20) \/ Reaches(Cell(gas_col, i), 10)

\* C10: with the resistivity or the gas column present, every row gets the
\* class of the first rule it matches: Potential Reservoir, else Pay Zone,
\* else Background; a row matching the Potential Reservoir rule is never
\* Pay Zone.
C10_FirstMatchWins ==
    (Done("compute_fluid_class") /\ columns(df0) \cap {resist_col, gas_col} # {}) =>
        /\ DOMAIN result = 1..len(df0)
        /\ \A i \in 1..len(df0) :
              /\ result[i] = IF RulePotential(i) THEN PotentialReservoir
                             ELSE IF RulePay(i) THEN PayZone
                             ELSE Background
              /\ RulePotential(i) => result[i] # PayZone

\* a call with a row that matches both rules (resistivity 100, gas 10) and
\* is Potential Reservoir, and a row that matches only the second
C10_Witness ==
    /\ Done("compute_fluid_class")
    /\ FluidCols \subseteq columns(df0)
    /\ \E i, j \in 1..len(df0) :
          /\ df0.data[resist_col][i] = Fin(100)
          /\ df0.data[gas_col][i] = Fin(10)
          /\ result[i] = PotentialReservoir
          /\ df0.data[resist_col][j] = Fin(99)
          /\ df0.data[gas_col][j] = Fin(50)
          /\ df0.data[PHI_COMBINED][j] = Fin(Frac(5, 100) - 1)
          /\ result[j] = PayZone

\* C11: with neither the resistivity nor the gas column, every row is
\* Background, whatever the porosity cells are.
C11_NoSignalAllBackground ==
    (Done("compute_fluid_class") /\ columns(df0) \cap {resist_col, gas_col} = {}) =>
        result = Full(len(df0), Background)

\* a call on a table of MaxRows rows that has only the porosity column,
\* with a porosity of 0.05 and a missing one
C11_Witness ==
    /\ Done("compute_fluid_class")
    /\ columns(df0) = {PHI_COMBINED}
    /\ len(df0) = MaxRows
    /\ \E i, j \in 1..len(df0) :
          /\ df0.data[PHI_COMBINED][i] = Fin(Frac(5, 100))
          /\ df0.data[PHI_COMBINED][j] = NaN
    /\ result = Full(MaxRows, Background)

\* the caller's table with every missing resistivity and gas cell, and each
\* of the two columns when absent, replaced by 0
ZeroIfNaN(series) == [i \in DOMAIN series |-> IF IsNaN(series[i]) THEN Fin(0) ELSE series[i]]
ZeroFilled(df) ==
    SetColumn(SetColumn(df, resist_col, ZeroIfNaN(ColumnOrNaN(df, resist_col))),
              gas_col, ZeroIfNaN(ColumnOrNaN(df, gas_col)))
FluidClasses == {Background, PayZone, PotentialReservoir}

RawPressure(i) == Add(p_hydro_psi(df0)[i], anomaly(df0)[i])

\* C13: no pressure is negative; a row whose baseline plus anomaly is below
\* zero gets exactly 0.
C13_PressureNeverNegative ==
    Done("compute_pore_pressure") =>
        \A i \in 1..len(df0) :
            /\ IsNaN(result[i]) \/ (isfinite(result[i]) /\ result[i][2] >= 0)
            /\ (isfinite(RawPressure(i)) /\ RawPressure(i)[2] < 0) => result[i] = Fin(0)

\* depth 1000 m, mud 1000 kg/m3 and exponent 2.0: about 1422 psi of baseline
\* and -10000 psi of anomaly
C13_Witness ==
    /\ Done("compute_pore_pressure")
    /\ {depth_col, mud_col, dc_col} \subseteq columns(df0)
    /\ \E i \in 1..len(df0) :
          /\ df0.data[depth_col][i] = Fin(1000)
          /\ df0.data[mud_col][i] = Fin(1000)
          /\ df0.data[dc_col][i] = Fin(200)
          /\ RawPressure(i)[2] < 0
          /\ result[i] = Fin(0)

\* comparison of two pressures, both finite
Above(a, b) == isfinite(a) /\ isfinite(b) /\ a[2] > b[2]
AtLeast(a, b) == isfinite(a) /\ isfinite(b) /\ a[2] >= b[2]

\* rows i and j of a table with depth and mud-weight columns: the same
\* defined mud weight, the same defined exponent (or no exponent column),
\* defined depths, j deeper than i
SameMudAndExponentDeeper(i, j) ==
    /\ {depth_col, mud_col} \subseteq columns(df0)
    /\ isfinite(Cell(mud_col, i)) /\ Cell(mud_col, i)[2] > 0
    /\ Cell(mud_col, i) = Cell(mud_col, j)
    /\ dc_col \in columns(df0) => isfinite(Cell(dc_col, i))
    /\ Cell(dc_col, i) = Cell(dc_col, j)
    /\ isfinite(Cell(depth_col, i)) /\ isfinite(Cell(depth_col, j))
    /\ Cell(depth_col, j)[2] > Cell(depth_col, i)[2]

\* C14 as stated: the deeper of two such rows has the strictly greater
\* pressure.
C14_DeeperStrictlyGreater ==
    Done("compute_pore_pressure") =>
        \A i, j \in 1..len(df0) :
            SameMudAndExponentDeeper(i, j) => Above(result[j], result[i])

\* C14: the deeper of two such rows has a pressure at least that of the
\* shallower one, and strictly greater unless both are clipped to 0.
C14_DeeperGreaterUnlessClipped ==
    Done("compute_pore_pressure") =>
        \A i, j \in 1..len(df0) :
            SameMudAndExponentDeeper(i, j) =>
                /\ AtLeast(result[j], result[i])
                /\ result[j] # Fin(0) => Above(result[j], result[i])

\* 1000 m and 2000 m at mud 1200 kg/m3 and exponent 0.8
C14_Witness ==
    /\ Done("compute_pore_pressure")
    /\ \E i, j \in 1..len(df0) :
          /\ SameMudAndExponentDeeper(i, j)
          /\ Cell(depth_col, i) = Fin(1000)
          /\ Cell(depth_col, j) = Fin(2000)
          /\ Cell(mud_col, i) = Fin(1200)
          /\ Cell(dc_col, i) = Fin(80)
          /\ Above(result[j], result[i])

\* rows i and j agree on depth, mud weight and hydrostatic-pressure cells
SameBaselineInputs(i, j) ==
    \A c \in {depth_col, mud_col, hydro_col} : Cell(c, i) = Cell(c, j)

\* C15: at the same depth and mud weight, exponent 0.8 gives a strictly
\* greater pressure than exponent 1.0.
C15_LowExponentHigherPressure ==
    Done("compute_pore_pressure") =>
        \A i, j \in 1..len(df0) :
            ( /\ SameBaselineInputs(i, j)
              /\ Cell(dc_col, i) = Fin(80)
              /\ Cell(dc_col, j) = Fin(100) ) => Above(result[i], result[j])

\* exponents 0.8 and 1.0 at 1000 m and 1200 kg/m3
C15_Witness ==
    /\ Done("compute_pore_pressure")
    /\ {depth_col, mud_col, dc_col} \subseteq columns(df0)
    /\ \E i, j \in 1..len(df0) :
          /\ SameBaselineInputs(i, j)
          /\ Cell(depth_col, i) = Fin(1000)
          /\ Cell(mud_col, i) = Fin(1200)
          /\ Cell(dc_col, i) = Fin(80)
          /\ Cell(dc_col, j) = Fin(100)
          /\ Above(result[i], result[j])

Max0(k) == IF k < 0 THEN 0 ELSE k
\* baseline of a row with mud weight m and depth d, in 1/100 psi
MudBaseline(m, d) == Scale(m * d, HydroFactor)
\* anomaly of a row with exponent e, in 1/100 psi
ExponentAnomaly(e) == (100 - e) * 10000

\* C16 as stated: a row with defined depth and mud weight whose exponent is
\* missing, in a table with the exponent column, gets the baseline with no
\* anomaly, a finite pressure.
C16_MissingExponentNoAnomaly ==
    Done("compute_pore_pressure") =>
        \A i \in 1..len(df0) :
            ( /\ {depth_col, mud_col, dc_col} \subseteq columns(df0)
              /\ isfinite(Cell(depth_col, i))
              /\ isfinite(Cell(mud_col, i))
              /\ IsNaN(Cell(dc_col, i)) ) =>
                result[i] = Fin(MudBaseline(Cell(mud_col, i)[2], Cell(depth_col, i)[2]))

\* C17: with the three columns and defined cells, the pressure is
\* max(0, mud * 9.80665 * depth * 0.000145... + (1.0 - exponent) * 10000.0);
\* without the exponent column it is the baseline alone for every row.
C17_PressureFormula ==
    Done("compute_pore_pressure") =>
        \A i \in 1..len(df0) :
            /\ ( /\ {depth_col, mud_col, dc_col} \subseteq columns(df0)
                 /\ isfinite(Cell(depth_col, i))
                 /\ isfinite(Cell(mud_col, i))
                 /\ isfinite(Cell(dc_col, i)) ) =>
                   result[i] = Fin(Max0(MudBaseline(Cell(mud_col, i)[2], Cell(depth_col, i)[2])
                                        + ExponentAnomaly(Cell(dc_col, i)[2])))
            /\ dc_col \notin columns(df0) => result[i] = clip_low(p_hydro_psi(df0)[i], 0)

\* 1000 m, 1200 kg/m3, exponent 0.8: 1706.79 psi of baseline and 2000 psi of
\* anomaly
C17_Witness ==
    /\ Done("compute_pore_pressure")
    /\ {depth_col, mud_col, dc_col} \subseteq columns(df0)
    /\ \E i \in 1..len(df0) :
          /\ Cell(depth_col, i) = Fin(1000)
          /\ Cell(mud_col, i) = Fin(1200)
          /\ Cell(dc_col, i) = Fin(80)
          /\ result[i] = Fin(170679 + 200000)

\* the caller's table with every missing mud weight replaced by 1000.0
WaterIfNaN(series) == [i \in DOMAIN series |-> IF IsNaN(series[i]) THEN Fin(1000) ELSE series[i]]
WaterFilled(df) == SetColumn(df, mud_col, WaterIfNaN(df.data[mud_col]))

\* C18: in a table with the mud-weight column, a row with a missing mud
\* weight gets the pressure it gets with mud weight 1000.0, which is finite
\* when its depth and exponent are defined.
C18_MissingMudIsWater ==
    (Done("compute_pore_pressure") /\ mud_col \in columns(df0)) =>
        /\ result = compute_pore_pressure(WaterFilled(df0))
        /\ \A i \in 1..len(df0) :
              ( /\ IsNaN(Cell(mud_col, i))
                /\ isfinite(Cell(depth_col, i))
                /\ isfinite(Cell(dc_col, i)) ) => isfinite(result[i])

\* a missing mud weight at 1000 m with exponent 1.0: 1422.33 psi
C18_Witness ==
    /\ Done("compute_pore_pressure")
    /\ {depth_col, mud_col, dc_col} \subseteq columns(df0)
    /\ \E i \in 1..len(df0) :
          /\ Cell(mud_col, i) = NaN
          /\ Cell(depth_col, i) = Fin(1000)
          /\ Cell(dc_col, i) = Fin(100)
          /\ result[i] = Fin(142233)

\* the pressure of row i for a baseline of base (1/100 psi): the anomaly
\* added, a non-finite sum undefined, the sum clipped at 0
PressureFrom(base, i) ==
    LET psi == Add(Fin(base), anomaly(df0)[i])
    IN  clip_low(IF isfinite(psi) THEN psi ELSE NaN, 0)

\* C19: without the mud-weight column, a defined P_Hydrostatic value is the
\* baseline after conversion from Pa to psi; without both columns the
\* baseline is 0 for every row.
C19_BaselineFromHydrostatic ==
    (Done("compute_pore_pressure") /\ mud_col \notin columns(df0)) =>
        \A i \in 1..len(df0) :
            /\ (hydro_col \in columns(df0) /\ isfinite(Cell(hydro_col, i))) =>
                  result[i] = PressureFrom(Scale(Cell(hydro_col, i)[2] * 100, PaFactor), i)
            /\ hydro_col \notin columns(df0) => result[i] = PressureFrom(0, i)

\* 10 MPa of hydrostatic pressure, no mud weight, no exponent: 1450.38 psi
C19_Witness ==
    /\ Done("compute_pore_pressure")
    /\ mud_col \notin columns(df0)
    /\ dc_col \notin columns(df0)
    /\ hydro_col \in columns(df0)
    /\ \E i \in 1..len(df0) :
          /\ Cell(hydro_col, i) = Fin(10000)
          /\ result[i] = Fin(145038)

Estimators == {"compute_phi_combined", "compute_fluid_class", "compute_pore_pressure"}
\* a cell an estimator may return: a float or a class string
IsValue(v) == isfinite(v) \/ IsNaN(v) \/ IsInf(v) \/ v \in FluidClasses

\* C20: each estimator returns, for any table (zero rows, no optional
\* channel, no DEPTH column included), a column with one cell per input row.
C20_OneCellPerRow ==
    (pc = "done" /\ op.fn \in Estimators) =>
        /\ DOMAIN result = 1..len(df0)
        /\ \A i \in 1..len(df0) : IsValue(result[i])

\* compute_phi_combined on a table of MaxRows rows and no column at all
C20_Witness ==
    /\ Done("compute_phi_combined")
    /\ columns(df0) = {}
    /\ len(df0) = MaxRows
    /\ result = Full(MaxRows, NaN)

\* the caller's table has none of the optional channels: DEPTH at most
NoOptionalChannel == columns(df0) \subseteq {depth_col}

SensorCols == {depth_col, gamma_col, resist_col, bulk_col, neutron_col}

\* C22 as stated: on a dataset with DEPTH and the sensor columns that lacks
\* a target column, load_data returns a table with the three targets.
C22_LoadComputesMissingTargets ==
    ( /\ op.fn = "load_data"
      /\ SensorCols \subseteq columns(df0)
      /\ ~(TARGETS \subseteq columns(df0)) ) =>
        /\ pc = "done"
        /\ TARGETS \subseteq columns(Returned)

\* what the estimator of target t returns on table df
Estimate(t, df) ==
    IF t = PHI_COMBINED THEN compute_phi_combined(df)
    ELSE IF t = FLUID_CLASS THEN compute_fluid_class(df, PHI_COMBINED)
    ELSE compute_pore_pressure(df)

\* C23: an undefined cell of a pre-existing target column is still
\* undefined after compute_all_targets, and each target column of the
\* returned table is either the whole pre-existing column or the whole
\* estimator output.
C23_NoCellLevelFill ==
    Done("compute_all_targets") =>
        \A t \in TARGETS :
            /\ t \in columns(df0) =>
                  /\ Returned.data[t] = df0.data[t]
                  /\ \A i \in 1..len(df0) :
                        IsNaN(df0.data[t][i]) => IsNaN(Returned.data[t][i])
            /\ t \notin columns(df0) => Returned.data[t] = Estimate(t, Returned)

\* a pre-existing porosity column with an undefined cell on a row whose
\* neutron reading is defined: the cell is still undefined
C23_Witness ==
    /\ Done("compute_all_targets")
    /\ {PHI_COMBINED, neutron_col} \subseteq columns(df0)
    /\ \E i \in 1..len(df0) :
          /\ IsNaN(df0.data[PHI_COMBINED][i])
          /\ isfinite(df0.data[neutron_col][i])
          /\ isfinite(compute_phi_combined(df0)[i])
          /\ IsNaN(Returned.data[PHI_COMBINED][i])

\* the table the fluid classifier must see: the caller's table with its
\* porosity column, or with the computed one when it had none
PorosityResolved ==
    IF PHI_COMBINED \in columns(df0) THEN df0
    ELSE SetColumn(df0, PHI_COMBINED, compute_phi_combined(df0))

\* C24: when FLUID_CLASS is absent, the attached column is
\* compute_fluid_class of the table with porosity already resolved.
C24_PorosityBeforeFluid ==
    (Done("compute_all_targets") /\ FLUID_CLASS \notin columns(df0)) =>
        Returned.data[FLUID_CLASS] = compute_fluid_class(PorosityResolved, PHI_COMBINED)

\* no porosity, fluid or resistivity column; gas 60 and neutron 25 percent:
\* the gas-and-porosity rule fires on the porosity just computed
C24_Witness ==
    /\ Done("compute_all_targets")
    /\ columns(df0) \cap {PHI_COMBINED, FLUID_CLASS, resist_col} = {}
    /\ {gas_col, neutron_col} \subseteq columns(df0)
    /\ \E i \in 1..len(df0) :
          /\ df0.data[gas_col][i] = Fin(60)
          /\ Returned.data[PHI_COMBINED][i] = Fin(Frac(25, 100))
          /\ Returned.data[FLUID_CLASS][i] = PotentialReservoir

\* the table compute_all_targets returns for the caller's table with the
\* other value of inplace
OtherMode == LET out == compute_all_targets(<<df0>>, ~op.inplace) IN out[1][out[2]]

\* C25: the three target columns returned with inplace=True equal those
\* returned with inplace=False on an equal input.
C25_ModesAgree ==
    Done("compute_all_targets") =>
        \A t \in TARGETS : Returned.data[t] = OtherMode.data[t]

\* an in-place call on a table with a pre-existing porosity column and
\* computed fluid class and pressure
C25_Witness ==
    /\ Done("compute_all_targets")
    /\ op.inplace
    /\ len(df0) = MaxRows
    /\ columns(df0) \cap TARGETS = {PHI_COMBINED}
    /\ {gas_col, bulk_col, mud_col, depth_col} \subseteq columns(df0)
    /\ \A t \in TARGETS : Returned.data[t] = OtherMode.data[t]

C28_UndefinedPorosityIsZero ==
    Done("compute_fluid_class") =>
        \A i \in 1..len(df0) :
            ( /\ Ge(Cell(gas_col, i), 50)
              /\ ~Ge(Cell(resist_col, i), 100)
              /\ IsNaN(Cell(PHI_COMBINED, i)) ) => result[i] = PayZone

\* gas 50 and resistivity 99 with a NaN porosity cell
C28_Witness ==
    /\ Done("compute_fluid_class")
    /\ {gas_col, resist_col, PHI_COMBINED} \subseteq columns(df0)
    /\ \E i \in 1..len(df0) :
          /\ df0.data[gas_col][i] = Fin(50)
          /\ df0.data[resist_col][i] = Fin(99)
          /\ df0.data[PHI_COMBINED][i] = NaN
          /\ result[i] = PayZone

\* the anomaly the claims give a row: none without the exponent column or
\* with a missing exponent, else (1.0 - exponent) * 10000
ClaimedAnomaly(i) ==
    IF isfinite(Cell(dc_col, i)) THEN ExponentAnomaly(Cell(dc_col, i)[2]) ELSE 0

\* C29 as stated: with the mud-weight and DEPTH columns, a row with a
\* missing depth has baseline 0 and the defined pressure max(0, anomaly).
C29_MissingDepthIsZero ==
    (Done("compute_pore_pressure") /\ {mud_col, depth_col} \subseteq columns(df0)) =>
        \A i \in 1..len(df0) :
            IsNaN(Cell(depth_col, i)) => result[i] = Fin(Max0(ClaimedAnomaly(i)))

\* the caller's table without column c
Without(df, c) == [n |-> len(df), data |-> [k \in columns(df) \ {c} |-> df.data[k]]]
\* the baseline taken from P_Hydrostatic (missing cells as 0), else 0
ColumnBaseline(i) ==
    IF isfinite(Cell(hydro_col, i)) THEN Scale(Cell(hydro_col, i)[2] * 100, PaFactor) ELSE 0

\* C30: with both the mud-weight and DEPTH columns a P_Hydrostatic column is
\* ignored; with the mud-weight column but no DEPTH column the mud weight
\* is ignored and the baseline is P_Hydrostatic converted, else 0.
C30_BaselineSourceOrder ==
    Done("compute_pore_pressure") =>
        /\ {mud_col, depth_col} \subseteq columns(df0) =>
              result = compute_pore_pressure(Without(df0, hydro_col))
        /\ (mud_col \in columns(df0) /\ depth_col \notin columns(df0)) =>
              /\ result = compute_pore_pressure(Without(df0, mud_col))
              /\ DOMAIN result = 1..len(df0)
              /\ \A i \in 1..len(df0) : result[i] = PressureFrom(ColumnBaseline(i), i)

\* mud weight, depth and P_Hydrostatic all present: 1000 m at 1200 kg/m3
\* gives 1706.79 psi, not the 1450.38 psi of the 10 MPa in P_Hydrostatic
C30_Witness ==
    /\ Done("compute_pore_pressure")
    /\ columns(df0) = {mud_col, depth_col, hydro_col}
    /\ \E i \in 1..len(df0) :
          /\ Cell(depth_col, i) = Fin(1000)
          /\ Cell(mud_col, i) = Fin(1200)
          /\ Cell(hydro_col, i) = Fin(10000)
          /\ result[i] = Fin(170679)

\* the requested features and the minimal features the caller's table has
RequestedPresent == Range(op.arg.features) \cap columns(df0)
MinimalPresent == Range(MINIMAL_FEATURES) \cap columns(df0)
\* the selection C27 describes
ClaimedSelection ==
    IF Cardinality(RequestedPresent) >= 3 THEN RequestedPresent ELSE MinimalPresent

====
